---- MODULE Spec2Model ----
(***************************************************************************)
(* epimetheus: the collection task (update_metrics) that periodically      *)
(* fetches every configured source, decodes it, flattens it and reconciles *)
(* the flat map into the shared gauge map and the metric registry.         *)
(* SpecServed adds the HTTP handler of GET /metrics, which runs at any     *)
(* moment beside the task; SpecFlatten applies the JSON decoder and the    *)
(* flattener to a family of documents.                                     *)
(*                                                                         *)
(* Strings are TLA+ strings.  A JSON value (serde_json::Value) is a tagged *)
(* record; an object is the sequence of its <<key, value>> members in the  *)
(* iteration order of serde_json::Map.  A HashMap is a function; the order *)
(* in which `for (key, value) in obj` visits it is arbitrary, so the model *)
(* picks the next key nondeterministically.                                *)
(*                                                                         *)
(* f64 values are modelled by integers: every number of the model is       *)
(* integral and far below 2^53, where Number::as_f64 is exact.             *)
(* str::parse::<f64> is modelled on strings over the characters            *)
(* 0-9, "+", "-", "x", " ", where it accepts exactly [+-]?[0-9]+, and on   *)
(* the literals "nan", "inf" and "-inf", which it accepts as well.  The    *)
(* non-finite f64 values are modelled by one integer, NonFinite, that no   *)
(* number of the model's documents reaches.                                *)
(***************************************************************************)
EXTENDS Integers, Sequences, FiniteSets, TLC

VARIABLES
    ignore_keys,                \* Args.ignore_keys
    metric_prefix,              \* Args.metric_prefix
    pc,                         \* position of the update_metrics task
    idx,                        \* index into files of the for loop
    metric_count,               \* update_metrics: let mut metric_count
    contents,                   \* the fetched document (parser results)
    file_type,                  \* the detected / derived format tag
    obj,                        \* update_metrics_from_map: the flat map
    todo,                       \* keys of obj the for loop has not visited
    key,                        \* the key being processed under the lock
    metrics_count,              \* update_metrics_from_map: metrics_count
    lock,                       \* the RwLock around the gauge map
    metrics,                    \* HashMap<String, Gauge>: name -> gauge value
    registry,                   \* names registered with the Registry
    sources_total,              \* InternalMetrics
    source_reads_total,
    source_read_failures_total,
    metrics_total,
    results,                    \* history: per source of this cycle, -1 or count
    failsAtTick,                \* history: read failures when the cycle began
    fetched,                    \* history: how the current source's fetch ended
    regCalls,                   \* history: registry.register calls per name
    lastObs,                    \* history: last coerced value seen per name
    cycles,                     \* history: completed collection cycles
    cycleObs,                   \* history: per name, <<source index, value>>
                                \* of the latest source of this cycle
                                \* that produced it
    written,                    \* history: per name, the values gauge.set wrote
    buffer                      \* metrics_handler: the answer returned by the
                                \* last step, if that step was a scrape

vars == <<ignore_keys, metric_prefix, pc, idx, metric_count, contents,
          file_type, obj, todo, key, metrics_count, lock, metrics, registry,
          sources_total, source_reads_total, source_read_failures_total,
          metrics_total, results, failsAtTick, fetched, regCalls, lastObs,
          cycles, cycleObs, written, buffer>>

\* ------------------------------------------------------------------ bounds

\* Completed collection cycles after which the timer no longer ticks.
MaxCycles == 2

\* Longest array of the trees the flattener is applied to.
MaxArrayLen == 2

\* ------------------------------------------------------------- JSON values

Num(n) == [t |-> "num", n |-> n]
Str(s) == [t |-> "str", s |-> s]
Bool(b) == [t |-> "bool", b |-> b]
Null == [t |-> "null"]
Obj(kv) == [t |-> "obj", kv |-> kv]
Arr(a) == [t |-> "arr", a |-> a]

\* --------------------------------------------------------- string helpers

StartsWith(s, p) == Len(s) >= Len(p) /\ SubSeq(s, 1, Len(p)) = p

Contains(s, p) ==
    \E i \in 1..(Len(s) - Len(p) + 1) : SubSeq(s, i, i + Len(p) - 1) = p

Digit(c) ==
    CASE c = "0" -> 0 [] c = "1" -> 1 [] c = "2" -> 2 [] c = "3" -> 3
      [] c = "4" -> 4 [] c = "5" -> 5 [] c = "6" -> 6 [] c = "7" -> 7
      [] c = "8" -> 8 [] c = "9" -> 9 [] OTHER -> -1

IsDigits(s) ==
    Len(s) > 0 /\ \A i \in 1..Len(s) : Digit(SubSeq(s, i, i)) >= 0

RECURSIVE DigitsValue(_)
DigitsValue(s) ==
    IF Len(s) = 0 THEN 0
    ELSE 10 * DigitsValue(SubSeq(s, 1, Len(s) - 1))
         + Digit(SubSeq(s, Len(s), Len(s)))

\* NaN and the infinities: f64 values that serde_json::Number cannot hold.
NonFinite == -1000000

\* str::parse::<f64>: <<n>> for Ok(n), << >> for Err.
ParseF64(s) ==
    IF s \in {"nan", "inf", "-inf"} THEN <<NonFinite>>
    ELSE IF Len(s) > 0 /\ SubSeq(s, 1, 1) = "-" /\ IsDigits(Tail(s))
        THEN <<0 - DigitsValue(Tail(s))>>
    ELSE IF Len(s) > 0 /\ SubSeq(s, 1, 1) = "+" /\ IsDigits(Tail(s))
        THEN <<DigitsValue(Tail(s))>>
    ELSE IF IsDigits(s) THEN <<DigitsValue(s)>>
    ELSE << >>

LowerChar(c) ==
    CASE c = "A" -> "a" [] c = "C" -> "c" [] c = "J" -> "j" [] c = "N" -> "n"
      [] c = "O" -> "o" [] c = "S" -> "s" [] c = "T" -> "t" [] c = "V" -> "v"
      [] c = "X" -> "x" [] OTHER -> c

\* str::to_lowercase on the characters the model's headers use.
RECURSIVE ToLowercase(_)
ToLowercase(s) ==
    IF Len(s) = 0 THEN ""
    ELSE LowerChar(SubSeq(s, 1, 1)) \o ToLowercase(Tail(s))

DigitChar(d) ==
    CASE d = 0 -> "0" [] d = 1 -> "1" [] d = 2 -> "2" [] d = 3 -> "3"
      [] d = 4 -> "4" [] d = 5 -> "5" [] d = 6 -> "6" [] d = 7 -> "7"
      [] d = 8 -> "8" [] OTHER -> "9"

\* format!("{}", i) of a usize.
RECURSIVE UsizeToString(_)
UsizeToString(i) ==
    IF i < 10 THEN DigitChar(i)
    ELSE UsizeToString(i \div 10) \o DigitChar(i % 10)

\* ------------------------------------------------------------ flattening

\* HashMap::insert of every pair of ins, in order, into the map m.
RECURSIVE InsertAll(_, _)
InsertAll(m, ins) ==
    IF ins = << >> THEN m
    ELSE LET k == ins[1][1]
             v == ins[1][2]
             m1 == [x \in DOMAIN m \cup {k} |-> IF x = k THEN v ELSE m[x]]
         IN  InsertAll(m1, Tail(ins))

EmptyMap == [x \in {} |-> Null]

\* The sequence of map.insert(prefix, value) calls flatten_json_inner makes.
RECURSIVE flatten_json_inner(_, _)
RECURSIVE FlattenMembers(_, _, _)
RECURSIVE FlattenElems(_, _, _)
flatten_json_inner(value, prefix) ==
    IF value.t = "obj" THEN FlattenMembers(value.kv, prefix, 1)
    ELSE IF value.t = "arr" THEN FlattenElems(value.a, prefix, 1)
    ELSE << <<prefix, value>> >>

FlattenMembers(kv, prefix, i) ==
    IF i > Len(kv) THEN << >>
    ELSE LET k == kv[i][1]
             new_prefix == IF prefix = "" THEN k ELSE prefix \o "__" \o k
         IN  flatten_json_inner(kv[i][2], new_prefix)
             \o FlattenMembers(kv, prefix, i + 1)

FlattenElems(a, prefix, i) ==
    IF i > Len(a) THEN << >>
    ELSE LET new_prefix == prefix \o "__" \o UsizeToString(i - 1)
         IN  flatten_json_inner(a[i], new_prefix)
             \o FlattenElems(a, prefix, i + 1)

\* The inserts in reverse order.
RECURSIVE Reversed(_)
Reversed(ins) ==
    IF ins = << >> THEN << >> ELSE Append(Reversed(Tail(ins)), ins[1])

\* Mutant: an entry that exists is kept (first write wins).
flatten_json_first_wins(value) ==
    InsertAll(EmptyMap, Reversed(flatten_json_inner(value, "")))

flatten_json(value) == InsertAll(EmptyMap, flatten_json_inner(value, ""))

\* ------------------------------------------------------------- decoders

\* What the three parsers make of one document text:
\*   json: serde_json::from_str, <<tree>> for Ok and << >> for Err;
\*   yaml: serde_yaml::from_str followed by serde_json::to_value,
\*         "parse_err", "conv_err" or "ok" with the tree;
\*   csv:  the records csv::Reader yields, the header row first.
Body(j, y, c) == [json |-> j, yaml |-> y, csv |-> c]
YamlOk(tree) == [r |-> "ok", v |-> tree]
YamlParseErr == [r |-> "parse_err"]
YamlConvErr == [r |-> "conv_err"]

NoBody == Body(<< >>, YamlParseErr, << >>)

\* process_json up to its call of update_metrics_from_map: <<flat map>>,
\* or << >> when the function returns 0 without reconciling.
process_json(c) ==
    IF c.json # << >> THEN <<flatten_json(c.json[1])>> ELSE << >>

process_yaml(c) ==
    IF c.yaml.r = "ok" THEN <<flatten_json(c.yaml.v)>> ELSE << >>

\* headers.iter().zip(first_row.iter()).filter_map(parse).collect()
RECURSIVE CsvPairs(_, _, _)
CsvPairs(headers, row, i) ==
    IF i > Len(headers) \/ i > Len(row) THEN << >>
    ELSE LET p == ParseF64(row[i])
         IN  (IF p = << >> THEN << >> ELSE << <<headers[i], Num(p[1])>> >>)
             \o CsvPairs(headers, row, i + 1)

\* Number::from_f64(num).unwrap() panics: a cell of the first data row that
\* is paired with a header parses to a value that is not finite.
CsvPanics(c) ==
    /\ Len(c.csv) >= 2
    /\ Len(c.csv[2]) = Len(c.csv[1])
    /\ \E i \in 1..Len(c.csv[2]) : ParseF64(c.csv[2][i]) = <<NonFinite>>

\* A record whose length differs from the header's is an Err of the
\* (non-flexible) reader, which the `_` arm turns into return 0.
\* Applies to documents on which CsvPanics is false.
process_csv(c) ==
    LET headers == IF Len(c.csv) >= 1 THEN c.csv[1] ELSE << >>
    IN  IF Len(c.csv) >= 2 /\ Len(c.csv[2]) = Len(headers)
        THEN <<InsertAll(EmptyMap, CsvPairs(headers, c.csv[2], 1))>>
        ELSE << >>

\* ---------------------------------------------------------------- fetcher

JSON_TYPES == <<"application/json">>
YAML_TYPES == <<"application/yaml", "application/x-yaml", "text/x-yaml">>
CSV_TYPES == <<"text/csv">>

AnyContains(s, types) == \E i \in 1..Len(types) : Contains(s, types[i])

\* headers: << >> or <<the Content-Type value>>.
detect_file_type_from_headers(headers) ==
    IF headers = << >> THEN "unknown"
    ELSE LET content_type == ToLowercase(headers[1])
         IN  IF AnyContains(content_type, JSON_TYPES) THEN "json"
             ELSE IF AnyContains(content_type, YAML_TYPES) THEN "yaml"
             ELSE IF AnyContains(content_type, CSV_TYPES) THEN "csv"
             ELSE "unknown"

IsUrl(file) == StartsWith(file, "http://") \/ StartsWith(file, "https://")

\* Largest i in 1..n with s[i] = c, or 0.
RECURSIVE LastIndexOf(_, _, _)
LastIndexOf(s, c, n) ==
    IF n = 0 THEN 0
    ELSE IF SubSeq(s, n, n) = c THEN n
    ELSE LastIndexOf(s, c, n - 1)

\* PathBuf::from(file).extension().and_then(to_str).unwrap_or("")
Extension(file) ==
    LET slash == LastIndexOf(file, "/", Len(file))
        name == SubSeq(file, slash + 1, Len(file))
        dot == LastIndexOf(name, ".", Len(name))
    IN  IF dot <= 1 THEN "" ELSE SubSeq(name, dot + 1, Len(name))

\* fetch_url: Ok((content, detected_type)) for every response received,
\* whatever its status; Err only when send() or text() fails.
fetch_url(response) ==
    [content |-> response.body,
     file_type |-> detect_file_type_from_headers(response.content_type)]

\* ----------------------------------------------------- metrics library

INTERNAL_NAMES ==
    {"epimetheus_sources_total", "epimetheus_source_reads_total",
     "epimetheus_source_read_failures_total", "epimetheus_metrics_total"}

Letters ==
    {"a", "b", "c", "d", "e", "f", "g", "h", "i", "j", "k", "l", "m", "n",
     "o", "p", "q", "r", "s", "t", "u", "v", "w", "x", "y", "z",
     "A", "B", "C", "D", "E", "F", "G", "H", "I", "J", "K", "L", "M", "N",
     "O", "P", "Q", "R", "S", "T", "U", "V", "W", "X", "Y", "Z"}
NameStart == Letters \cup {"_", ":"}
NameChar == NameStart \cup {"0", "1", "2", "3", "4", "5", "6", "7", "8", "9"}

\* prometheus: a metric name matches [a-zA-Z_:][a-zA-Z0-9_:]*.
IsValidMetricName(name) ==
    /\ Len(name) > 0
    /\ SubSeq(name, 1, 1) \in NameStart
    /\ \A i \in 1..Len(name) : SubSeq(name, i, i) \in NameChar

\* Gauge::new(name, help) is Ok: the help is not empty, the name is valid.
GaugeNewOk(name, help) == help # "" /\ IsValidMetricName(name)

\* registry.register(..) is Ok: no collector of that name is registered.
RegisterOk(name) == name \notin registry

\* ------------------------------------------------------------ reconciler

\* f with the count of x raised by one / with x mapped to v.
Bump(f, x) ==
    [y \in DOMAIN f \cup {x} |-> IF y = x THEN (IF x \in DOMAIN f THEN f[x] + 1 ELSE 1)
                                  ELSE f[y]]

Put(f, x, v) == [y \in DOMAIN f \cup {x} |-> IF y = x THEN v ELSE f[y]]

\* History: value v was written to the gauge named x.
Record(f, x, v) ==
    Put(f, x, (IF x \in DOMAIN f THEN f[x] ELSE {}) \cup {v})

\* History: source i of the configured list produced value v for name x;
\* the record of the source with the larger index is kept.
Observe(f, x, i, v) ==
    IF x \in DOMAIN f /\ f[x][1] > i THEN f ELSE Put(f, x, <<i, v>>)

\* Mutant: the lookup never finds the gauge (insert instead of entry).
InMapNever(name) == FALSE

\* metrics.entry(metric_name): the map holds a gauge of that name.
InMap(name) == name \in DOMAIN metrics

\* format!("{}{}", metric_prefix, key)
MetricName(k) == metric_prefix \o k

\* Mutant: the ignore list is compared with the prefixed metric name.
IsIgnoredByName(k) ==
    \E i \in 1..Len(ignore_keys) : ignore_keys[i] = MetricName(k)

\* ignore_keys.contains(key)
IsIgnored(k) == \E i \in 1..Len(ignore_keys) : ignore_keys[i] = k

\* Mutant: a string that does not parse counts as 0.
CoerceDefaultZero(value) ==
    IF value.t = "num" THEN <<value.n>>
    ELSE IF value.t = "str"
        THEN (IF ParseF64(value.s) = << >> THEN <<0>> ELSE ParseF64(value.s))
    ELSE << >>

\* The match on value: <<n>> when gauge.set(n) is reached, << >> otherwise.
Coerce(value) ==
    IF value.t = "num" THEN <<value.n>>
    ELSE IF value.t = "str" THEN ParseF64(value.s)
    ELSE << >>

\* ----------------------------------------------------------- environment

\* Args.files: a URL, a local JSON file and a local CSV file.
files == <<"/d/a.json", "http://h/m", "/d/c.csv">>

DocA == Obj(<< <<"a", Num(1)>>, <<"aa", Str("2")>> >>)
DocB ==
    Obj(<< <<"a", Num(2)>>, <<"aa", Str("x")>>,
           <<"b", Obj(<< <<"c", Arr(<<Null, Str("+1")>>)>> >>)>> >>)
\* "a-b" is no valid metric name.
DocBadName == Obj(<< <<"a", Num(1)>>, <<"a-b", Num(2)>> >>)
\* With the empty prefix this key names one of the internal metrics.
DocClash == Obj(<< <<"a", Num(2)>>, <<"epimetheus_metrics_total", Num(1)>> >>)

JsonText(tree) == Body(<<tree>>, YamlOk(tree), << <<"{">> >>)
CsvText(rows) == Body(<< >>, YamlOk(Str("x")), rows)
Garbage == Body(<< >>, YamlParseErr, << <<"x">>, <<"1", "2">> >>)
CsvRows == << <<"a", "b", "aa">>, <<"1", "x", "+2">>, <<"2", "2", "2">> >>
\* The first cell of the data row parses, to NaN.
CsvNan == << <<"a", "b">>, <<"nan", "1">> >>

\* The texts a source may hold when it is read.
Bodies ==
    {JsonText(DocA), JsonText(DocB), JsonText(DocBadName), JsonText(DocClash),
     CsvText(CsvRows), CsvText(CsvNan), Garbage}

Response(st, ct, b) == [status |-> st, content_type |-> ct, body |-> b]

\* The responses the URL source may answer with.
Responses ==
    {Response(200, <<"application/json">>, JsonText(DocA)),
     Response(404, <<"Application/JSON; charset=x">>, JsonText(DocB)),
     Response(200, <<"text/x-yaml">>, JsonText(DocB)),
     Response(200, <<"text/csv">>, CsvText(CsvRows)),
     Response(200, << >>, JsonText(DocA)),
     Response(200, <<"application/json">>, Garbage)}

\* The configurations (ignore_keys, metric_prefix) the task is started with.
Configs ==
    {<< << >>, "" >>, << <<"aa">>, "a" >>, << <<"a", "b__c__0">>, "" >>}

ZeroMap == [x \in {} |-> 0]

\* How a fetch ended: ok for Ok(..), status the HTTP status (0: none).
Fetched(ok, st) == [done |-> TRUE, ok |-> ok, status |-> st]
NotFetched == [done |-> FALSE, ok |-> FALSE, status |-> 0]

\* No scrape has been answered yet.
NoResponse == << >>

\* ------------------------------------------------------------------- Init

\* main: the registry holds the four internal metrics, the gauge map is
\* empty, and update_metrics waits for its first tick.
Init ==
    /\ \E c \in Configs : ignore_keys = c[1] /\ metric_prefix = c[2]
    /\ pc = "idle"
    /\ idx = 1
    /\ metric_count = 0
    /\ contents = NoBody
    /\ file_type = ""
    /\ obj = EmptyMap
    /\ todo = {}
    /\ key = ""
    /\ metrics_count = 0
    /\ lock = "free"
    /\ metrics = ZeroMap
    /\ registry = INTERNAL_NAMES
    /\ sources_total = Len(files)
    /\ source_reads_total = 0
    /\ source_read_failures_total = 0
    /\ metrics_total = 0
    /\ results = << >>
    /\ failsAtTick = 0
    /\ fetched = NotFetched
    /\ regCalls = ZeroMap
    /\ lastObs = ZeroMap
    /\ cycles = 0
    /\ cycleObs = ZeroMap
    /\ written = ZeroMap
    /\ buffer = NoResponse

config == <<ignore_keys, metric_prefix, sources_total>>
callLocals == <<obj, todo, key, metrics_count>>
gaugeState == <<lock, metrics, registry, regCalls, lastObs>>
counters == <<source_reads_total, source_read_failures_total, metrics_total>>
hist == <<cycles, cycleObs, written>>

\* -------------------------------------------------------- update_metrics

\* Mutant: metric_count is declared outside the loop and never reset.
TickNoReset ==
    /\ pc = "idle"
    /\ source_reads_total < MaxCycles * Len(files)
    /\ pc' = "source"
    /\ idx' = 1
    /\ results' = << >>
    /\ failsAtTick' = source_read_failures_total
    /\ cycleObs' = ZeroMap
    /\ buffer' = NoResponse
    /\ UNCHANGED <<config, cycles, written, metric_count, contents,
                   file_type, callLocals, gaugeState, counters, fetched>>

\* interval.tick().await returns; let mut metric_count = 0.
Tick ==
    /\ pc = "idle"
    /\ source_reads_total < MaxCycles * Len(files)
    /\ pc' = "source"
    /\ idx' = 1
    /\ metric_count' = 0
    /\ results' = << >>
    /\ failsAtTick' = source_read_failures_total
    /\ cycleObs' = ZeroMap
    /\ buffer' = NoResponse
    /\ UNCHANGED <<config, cycles, written, contents, file_type, callLocals,
                   gaugeState, counters, fetched>>

\* for file in &files: source_reads_total.inc(), then the fetch is awaited.
BeginSource ==
    /\ pc = "source"
    /\ idx <= Len(files)
    /\ source_reads_total' = source_reads_total + 1
    /\ pc' = "fetch"
    /\ fetched' = NotFetched
    /\ buffer' = NoResponse
    /\ UNCHANGED <<config, hist, idx, metric_count, contents, file_type, callLocals,
                   gaugeState, source_read_failures_total, metrics_total,
                   results, failsAtTick>>

\* Mutant: the Err arms `break` out of the for loop.
FetchErrBreak ==
    /\ pc = "fetch"
    /\ source_read_failures_total' = source_read_failures_total + 1
    /\ idx' = Len(files) + 1
    /\ pc' = "source"
    /\ results' = Append(results, -1)
    /\ fetched' = Fetched(FALSE, 0)
    /\ buffer' = NoResponse
    /\ UNCHANGED <<config, hist, metric_count, contents, file_type, callLocals,
                   gaugeState, source_reads_total, metrics_total, failsAtTick>>

\* The Err arms: count the failure and `continue` with the next source.
FetchErr ==
    /\ pc = "fetch"
    /\ source_read_failures_total' = source_read_failures_total + 1
    /\ idx' = idx + 1
    /\ pc' = "source"
    /\ results' = Append(results, -1)
    /\ fetched' = Fetched(FALSE, 0)
    /\ buffer' = NoResponse
    /\ UNCHANGED <<config, hist, metric_count, contents, file_type, callLocals,
                   gaugeState, source_reads_total, metrics_total, failsAtTick>>

\* fetch_url returned Ok((content, detected_type)).
FetchUrlOk ==
    /\ pc = "fetch"
    /\ IsUrl(files[idx])
    /\ \E response \in Responses :
          /\ contents' = fetch_url(response).content
          /\ file_type' = fetch_url(response).file_type
          /\ fetched' = Fetched(TRUE, response.status)
    /\ pc' = "content"
    /\ buffer' = NoResponse
    /\ UNCHANGED <<config, hist, idx, metric_count, callLocals, gaugeState, counters,
                   results, failsAtTick>>

\* fs::read_to_string returned Ok(contents).
ReadFileOk ==
    /\ pc = "fetch"
    /\ ~IsUrl(files[idx])
    /\ \E body \in Bodies : contents' = body
    /\ file_type' = Extension(files[idx])
    /\ fetched' = Fetched(TRUE, 0)
    /\ pc' = "content"
    /\ buffer' = NoResponse
    /\ UNCHANGED <<config, hist, idx, metric_count, callLocals, gaugeState, counters,
                   results, failsAtTick>>

\* match file_type.as_str(): the decoder's result, << >> for "return 0".
Decoded ==
    IF file_type = "json" THEN process_json(contents)
    ELSE IF file_type \in {"yaml", "yml"} THEN process_yaml(contents)
    ELSE IF file_type = "csv" THEN process_csv(contents)
    ELSE << >>

\* The decoder panics before it returns.
DecodePanics == file_type = "csv" /\ CsvPanics(contents)

\* process_csv: Number::from_f64(num).unwrap() panics; the task ends.
PanicFromF64 ==
    /\ pc = "content"
    /\ DecodePanics
    /\ pc' = "panicked"
    /\ buffer' = NoResponse
    /\ UNCHANGED <<config, hist, idx, metric_count, contents, file_type,
                   callLocals, gaugeState, counters, results, failsAtTick,
                   fetched>>

\* The decoder parsed the content and calls update_metrics_from_map.
Decode ==
    /\ pc = "content"
    /\ ~DecodePanics
    /\ Decoded # << >>
    /\ obj' = Decoded[1]
    /\ todo' = DOMAIN Decoded[1]
    /\ metrics_count' = 0
    /\ pc' = "keys"
    /\ contents' = NoBody
    /\ buffer' = NoResponse
    /\ UNCHANGED <<config, hist, idx, metric_count, file_type, key, gaugeState,
                   counters, results, failsAtTick, fetched>>

\* Mutant: a source that cannot be decoded counts as a read failure.
SkipCountsFailure ==
    /\ pc = "content"
    /\ ~DecodePanics
    /\ Decoded = << >>
    /\ idx' = idx + 1
    /\ pc' = "source"
    /\ contents' = NoBody
    /\ results' = Append(results, 0)
    /\ source_read_failures_total' = source_read_failures_total + 1
    /\ buffer' = NoResponse
    /\ UNCHANGED <<config, hist, metric_count, file_type, callLocals,
                   gaugeState, source_reads_total, metrics_total, failsAtTick,
                   fetched>>

\* The decoder returned 0 (parse failure), or the format is unsupported.
Skip ==
    /\ pc = "content"
    /\ ~DecodePanics
    /\ Decoded = << >>
    /\ idx' = idx + 1
    /\ pc' = "source"
    /\ contents' = NoBody
    /\ results' = Append(results, 0)
    /\ buffer' = NoResponse
    /\ UNCHANGED <<config, hist, metric_count, file_type, callLocals, gaugeState,
                   counters, failsAtTick, fetched>>

\* internal_metrics.metrics_total.set(metric_count), back to the tick.
EndCycle ==
    /\ pc = "source"
    /\ idx > Len(files)
    /\ metrics_total' = metric_count
    /\ pc' = "idle"
    /\ cycles' = cycles + 1
    /\ buffer' = NoResponse
    /\ UNCHANGED <<config, cycleObs, written, idx, metric_count, contents, file_type, callLocals,
                   gaugeState, source_reads_total, source_read_failures_total,
                   results, failsAtTick, fetched>>

\* ----------------------------------------------- update_metrics_from_map

\* The for loop visits an ignored key: nothing happens.
IgnoreKey ==
    /\ pc = "keys"
    /\ \E k \in todo : IsIgnored(k) /\ todo' = todo \ {k}
    /\ buffer' = NoResponse
    /\ UNCHANGED <<config, hist, pc, idx, metric_count, contents, file_type, obj,
                   key, metrics_count, gaugeState, counters, results,
                   failsAtTick, fetched>>

\* The for loop visits a key that is not ignored: metrics.write().await.
LockKey ==
    /\ pc = "keys"
    /\ lock = "free"
    /\ \E k \in todo :
          /\ ~IsIgnored(k)
          /\ key' = k
          /\ todo' = todo \ {k}
          /\ lastObs' = IF Coerce(obj[k]) = << >> THEN lastObs
                        ELSE Put(lastObs, MetricName(k), Coerce(obj[k])[1])
          /\ cycleObs' = IF Coerce(obj[k]) = << >> THEN cycleObs
                         ELSE Observe(cycleObs, MetricName(k), idx,
                                      Coerce(obj[k])[1])
    /\ lock' = "write"
    /\ pc' = "locked"
    /\ buffer' = NoResponse
    /\ UNCHANGED <<config, cycles, written, idx, metric_count, contents, file_type, obj,
                   metrics_count, metrics, registry, regCalls, counters,
                   results, failsAtTick, fetched>>

\* Mutant: the warn arms keep the write guard alive.
SkipValueKeepsGuard ==
    /\ pc = "locked"
    /\ Coerce(obj[key]) = << >>
    /\ pc' = "keys"
    /\ buffer' = NoResponse
    /\ UNCHANGED <<config, hist, idx, metric_count, contents, file_type, obj, todo,
                   key, metrics_count, lock, metrics, registry, regCalls,
                   lastObs, counters, results, failsAtTick, fetched>>

\* Mutant: the warn arms reset an existing gauge to 0.
SkipValueZeroes ==
    /\ pc = "locked"
    /\ Coerce(obj[key]) = << >>
    /\ lock' = "free"
    /\ pc' = "keys"
    /\ metrics' = [n \in DOMAIN metrics |->
                      IF n = MetricName(key) THEN 0 ELSE metrics[n]]
    /\ buffer' = NoResponse
    /\ UNCHANGED <<config, hist, idx, metric_count, contents, file_type, obj, todo,
                   key, metrics_count, registry, regCalls, lastObs, counters,
                   results, failsAtTick, fetched>>

\* The value is no number and no parsable string: warn, drop the guard.
SkipValue ==
    /\ pc = "locked"
    /\ Coerce(obj[key]) = << >>
    /\ lock' = "free"
    /\ pc' = "keys"
    /\ buffer' = NoResponse
    /\ UNCHANGED <<config, hist, idx, metric_count, contents, file_type, obj, todo,
                   key, metrics_count, metrics, registry, regCalls, lastObs,
                   counters, results, failsAtTick, fetched>>

\* Mutant: an existing gauge keeps the value it has (first write wins).
SetExistingKeepsValue ==
    /\ pc = "locked"
    /\ Coerce(obj[key]) # << >>
    /\ InMap(MetricName(key))
    /\ metrics_count' = metrics_count + 1
    /\ lock' = "free"
    /\ pc' = "keys"
    /\ buffer' = NoResponse
    /\ UNCHANGED <<config, hist, idx, metric_count, contents, file_type, obj,
                   todo, key, metrics, registry, regCalls, lastObs, counters,
                   results, failsAtTick, fetched>>

\* entry(..) finds the gauge: gauge.set(n), count it, drop the guard.
SetExisting ==
    /\ pc = "locked"
    /\ Coerce(obj[key]) # << >>
    /\ InMap(MetricName(key))
    /\ metrics' = [metrics EXCEPT ![MetricName(key)] = Coerce(obj[key])[1]]
    /\ written' = Record(written, MetricName(key), Coerce(obj[key])[1])
    /\ metrics_count' = metrics_count + 1
    /\ lock' = "free"
    /\ pc' = "keys"
    /\ buffer' = NoResponse
    /\ UNCHANGED <<config, cycles, cycleObs, idx, metric_count, contents, file_type, obj, todo,
                   key, registry, regCalls, lastObs, counters, results, failsAtTick, fetched>>

\* Mutant: the new gauge is inserted into the map but never registered.
CreateGaugeUnregistered ==
    /\ pc = "locked"
    /\ Coerce(obj[key]) # << >>
    /\ ~InMap(MetricName(key))
    /\ GaugeNewOk(MetricName(key), key)
    /\ RegisterOk(MetricName(key))
    /\ regCalls' = Bump(regCalls, MetricName(key))
    /\ metrics' = Put(metrics, MetricName(key), 0)
    /\ pc' = "registered"
    /\ buffer' = NoResponse
    /\ UNCHANGED <<config, hist, idx, metric_count, contents, file_type,
                   callLocals, lock, registry, lastObs, counters, results,
                   failsAtTick, fetched>>

\* or_insert_with: Gauge::new and registry.register are Ok; the new gauge
\* (value 0) is registered and inserted.
CreateGauge ==
    /\ pc = "locked"
    /\ Coerce(obj[key]) # << >>
    /\ ~InMap(MetricName(key))
    /\ GaugeNewOk(MetricName(key), key)
    /\ RegisterOk(MetricName(key))
    /\ registry' = registry \cup {MetricName(key)}
    /\ regCalls' = Bump(regCalls, MetricName(key))
    /\ metrics' = Put(metrics, MetricName(key), 0)
    /\ pc' = "registered"
    /\ buffer' = NoResponse
    /\ UNCHANGED <<config, hist, idx, metric_count, contents, file_type, callLocals,
                   lock, lastObs, counters, results, failsAtTick, fetched>>

\* or_insert_with: Gauge::new(..).unwrap() panics.
PanicGaugeNew ==
    /\ pc = "locked"
    /\ Coerce(obj[key]) # << >>
    /\ ~InMap(MetricName(key))
    /\ ~GaugeNewOk(MetricName(key), key)
    /\ lock' = "free"
    /\ pc' = "panicked"
    /\ buffer' = NoResponse
    /\ UNCHANGED <<config, hist, idx, metric_count, contents, file_type, callLocals,
                   metrics, registry, regCalls, lastObs, counters, results,
                   failsAtTick, fetched>>

\* or_insert_with: registry.register(..).unwrap() panics.
PanicRegister ==
    /\ pc = "locked"
    /\ Coerce(obj[key]) # << >>
    /\ ~InMap(MetricName(key))
    /\ GaugeNewOk(MetricName(key), key)
    /\ ~RegisterOk(MetricName(key))
    /\ regCalls' = Bump(regCalls, MetricName(key))
    /\ lock' = "free"
    /\ pc' = "panicked"
    /\ buffer' = NoResponse
    /\ UNCHANGED <<config, hist, idx, metric_count, contents, file_type, callLocals,
                   metrics, registry, lastObs, counters, results, failsAtTick, fetched>>

\* Mutant: the guard taken for a new gauge lives on after the key is done.
SetCreatedKeepsGuard ==
    /\ pc = "registered"
    /\ metrics' = [metrics EXCEPT ![MetricName(key)] = Coerce(obj[key])[1]]
    /\ written' = Record(written, MetricName(key), Coerce(obj[key])[1])
    /\ metrics_count' = metrics_count + 1
    /\ pc' = "keys"
    /\ buffer' = NoResponse
    /\ UNCHANGED <<config, cycles, cycleObs, idx, metric_count, contents,
                   file_type, obj, todo, key, lock, registry, regCalls,
                   lastObs, counters, results, failsAtTick, fetched>>

\* gauge.set(n) on the gauge just created, count it, drop the guard.
SetCreated ==
    /\ pc = "registered"
    /\ metrics' = [metrics EXCEPT ![MetricName(key)] = Coerce(obj[key])[1]]
    /\ written' = Record(written, MetricName(key), Coerce(obj[key])[1])
    /\ metrics_count' = metrics_count + 1
    /\ lock' = "free"
    /\ pc' = "keys"
    /\ buffer' = NoResponse
    /\ UNCHANGED <<config, cycles, cycleObs, idx, metric_count, contents, file_type, obj, todo,
                   key, registry, regCalls, lastObs, counters, results, failsAtTick, fetched>>

\* return metrics_count; the caller adds it to metric_count.
ReturnCount ==
    /\ pc = "keys"
    /\ todo = {}
    /\ metric_count' = metric_count + metrics_count
    /\ results' = Append(results, metrics_count)
    /\ idx' = idx + 1
    /\ pc' = "source"
    /\ obj' = EmptyMap
    /\ metrics_count' = 0
    /\ buffer' = NoResponse
    /\ UNCHANGED <<config, hist, contents, file_type, todo, key, gaugeState,
                   counters, failsAtTick, fetched>>

Next ==
    \/ Tick
    \/ BeginSource
    \/ FetchErr
    \/ FetchUrlOk
    \/ ReadFileOk
    \/ Decode
    \/ PanicFromF64
    \/ Skip
    \/ EndCycle
    \/ IgnoreKey
    \/ LockKey
    \/ SkipValue
    \/ SetExisting
    \/ CreateGauge
    \/ PanicGaugeNew
    \/ PanicRegister
    \/ SetCreated
    \/ ReturnCount

Spec == Init /\ [][Next]_vars

\* ------------------------------------------------- documents to flatten

\* The JSON documents the first source may hold when the flattener is
\* examined on its own: scalars, arrays and objects nested up to three
\* levels, with keys that contain the separator and the empty key.  The
\* members of an object are listed in every order.
Scalars == {Num(1), Num(2)}
SeqsUpTo(S, n) == UNION {[1..m -> S] : m \in 0..n}
ScalarArrays == {Arr(a) : a \in SeqsUpTo(Scalars, MaxArrayLen)}
InnerValues ==
    Scalars \cup ScalarArrays \cup {Obj(<< >>)}
    \cup {Obj(<< <<k, v>> >>) : k \in {"b", "c"}, v \in Scalars \cup ScalarArrays}
TopKeys == {"a", "a__b", ""}
TopObjects ==
    {Obj(<< <<k, v>> >>) : k \in TopKeys, v \in InnerValues}
    \cup {Obj(<< <<kv[1], kv[3]>>, <<kv[2], kv[4]>> >>) :
            kv \in {x \in TopKeys \X TopKeys \X InnerValues \X InnerValues :
                       x[1] # x[2]}}
TopArrays ==
    {Arr(a) : a \in SeqsUpTo(Scalars \cup {Obj(<< <<"b", Num(1)>> >>)},
                             MaxArrayLen)}
ExampleTree ==
    Obj(<< <<"a", Obj(<< <<"b", Num(1)>>,
                         <<"c", Arr(<<Num(2), Num(3)>>)>> >>)>> >>)
Trees == InnerValues \cup TopObjects \cup TopArrays \cup {ExampleTree}

\* update_metrics has read the first source, a local .json file, in its
\* first cycle, and the file holds one of the documents above.
InitFlatten ==
    /\ \E c \in Configs : ignore_keys = c[1] /\ metric_prefix = c[2]
    /\ pc = "content"
    /\ idx = 1
    /\ metric_count = 0
    /\ \E tree \in Trees : contents = JsonText(tree)
    /\ file_type = Extension(files[1])
    /\ obj = EmptyMap
    /\ todo = {}
    /\ key = ""
    /\ metrics_count = 0
    /\ lock = "free"
    /\ metrics = ZeroMap
    /\ registry = INTERNAL_NAMES
    /\ sources_total = Len(files)
    /\ source_reads_total = 1
    /\ source_read_failures_total = 0
    /\ metrics_total = 0
    /\ results = << >>
    /\ failsAtTick = 0
    /\ fetched = Fetched(TRUE, 0)
    /\ regCalls = ZeroMap
    /\ lastObs = ZeroMap
    /\ cycles = 0
    /\ cycleObs = ZeroMap
    /\ written = ZeroMap
    /\ buffer = NoResponse

\* process_json applied to the document: parse and flatten.
NextFlatten == Decode

SpecFlatten == InitFlatten /\ [][NextFlatten]_vars

\* -------------------------------------------------------- metrics_handler

\* registry.gather(): every registered collector with its current value.
\* A user gauge of the registry is a clone of the gauge in the gauge map.
Gather ==
    [n \in registry |->
        IF n = "epimetheus_sources_total" THEN sources_total
        ELSE IF n = "epimetheus_source_reads_total" THEN source_reads_total
        ELSE IF n = "epimetheus_source_read_failures_total"
            THEN source_read_failures_total
        ELSE IF n = "epimetheus_metrics_total" THEN metrics_total
        ELSE metrics[n]]

\* Mutant: the handler takes the read lock of the gauge map first.
ScrapeUnderReadLock ==
    /\ lock = "free"
    /\ buffer' = <<Gather>>
    /\ UNCHANGED <<config, hist, pc, idx, metric_count, contents, file_type,
                   callLocals, gaugeState, counters, results, failsAtTick,
                   fetched>>

\* GET /metrics: gather the registry and encode it.  The handler reads
\* neither the gauge map nor its lock.
Scrape ==
    /\ buffer' = <<Gather>>
    /\ UNCHANGED <<config, hist, pc, idx, metric_count, contents,
                   file_type, callLocals, gaugeState, counters, results,
                   failsAtTick, fetched>>

\* The collection task together with the HTTP server.
NextServed ==
    \/ Next
    \/ Scrape

SpecServed == Init /\ [][NextServed]_vars

\* ----------------------------------------------------------- properties

RECURSIVE SumCounts(_)
SumCounts(r) ==
    IF r = << >> THEN 0
    ELSE (IF r[1] >= 0 THEN r[1] ELSE 0) + SumCounts(Tail(r))

Failures(r) == Cardinality({i \in 1..Len(r) : r[i] = -1})

IgnoreSet == {ignore_keys[i] : i \in 1..Len(ignore_keys)}

\* A value the reconciler cannot turn into a float.
NonNumeric(v) ==
    \/ v.t \in {"bool", "null"}
    \/ v.t = "str" /\ ParseF64(v.s) = << >>

NumericValue(v) == IF v.t = "num" THEN v.n ELSE ParseF64(v.s)[1]

\* The keys of the flat map m that are not ignored and carry a number.
Countable(m) == {k \in DOMAIN m : k \notin IgnoreSet /\ ~NonNumeric(m[k])}

CallDone == pc = "keys" /\ todo = {}

\* C1: failure isolation.  Between two sources and at the end of a cycle,
\* every source before the loop index has been processed (a fetch failure
\* never ends the loop early), the read-failures counter has grown by the
\* number of sources of this cycle whose fetch failed, and the cycle count
\* (at the end: the metrics-total gauge) is the sum of the counts the
\* reconcile calls of the other sources returned.
C1_FailureIsolation ==
    /\ pc = "source" =>
          /\ Len(results) = idx - 1
          /\ source_read_failures_total - failsAtTick = Failures(results)
          /\ metric_count = SumCounts(results)
    /\ (pc = "idle" /\ results # << >>) =>
          /\ Len(results) = Len(files)
          /\ source_read_failures_total - failsAtTick = Failures(results)
          /\ metrics_total = SumCounts(results)

\* A cycle in which the second of three sources failed and the other two
\* were reconciled.
C1_Witness ==
    /\ pc = "idle"
    /\ Len(results) = 3
    /\ results[1] > 0 /\ results[2] = -1 /\ results[3] > 0
    /\ source_read_failures_total - failsAtTick = 1
    /\ metrics_total = results[1] + results[3]

\* C2: gauge identity and reuse.  Every name of the gauge map is registered
\* and register was called for it exactly once, however often the name was
\* observed; whenever the lock is free its gauge holds the coerced value of
\* the latest observation of the name.
C2_GaugeIdentity ==
    \A name \in DOMAIN metrics :
        /\ name \in registry
        /\ name \in DOMAIN regCalls /\ regCalls[name] = 1
        /\ lock = "free" => (name \in DOMAIN lastObs
                             /\ metrics[name] = lastObs[name])

\* The gauge a was created, and later observed again with another value.
C2_Witness ==
    /\ metric_prefix = ""
    /\ lock = "free"
    /\ {"a", "aa"} \subseteq DOMAIN metrics
    /\ metrics["a"] = 2
    /\ regCalls["a"] = 1
    /\ source_reads_total > Len(files)

\* C3: the collection scheduler never stops.  Whatever the sources return,
\* the task is never in a state other than the wait for the next tick from
\* which it cannot take a step.
C3_SchedulerNeverStops == pc # "idle" => ENABLED Next

\* C4: a non-success HTTP status is a fetch failure.  The body of a response
\* whose status is not 2xx is never handed to a decoder or reconciled.
C4_NonSuccessIsFailure ==
    (fetched.done /\ fetched.status # 0 /\ fetched.status \notin 200..299) =>
        /\ ~fetched.ok
        /\ pc \notin {"content", "keys", "locked", "registered"}

\* C5 as stated: the write lock is held for the whole reconcile call, so
\* it is held between two keys of the same call.
C5_LockHeldForWholeCall ==
    (/\ pc = "keys"
     /\ \E k \in DOMAIN obj \ todo : ~IsIgnored(k)
     /\ \E k \in todo : ~IsIgnored(k)) => lock = "write"

\* C5 amended: the write lock is taken once per key that is not ignored
\* and released when that key has been processed: it is held exactly while
\* a single key is being reconciled and is free between two keys.
C5_LockHeldPerKey == lock = "write" <=> pc \in {"locked", "registered"}

\* Between two keys of one call, with the lock free.
C5_Witness ==
    /\ pc = "keys"
    /\ lock = "free"
    /\ \E k \in DOMAIN obj \ todo : ~IsIgnored(k) /\ ~NonNumeric(obj[k])
    /\ \E k \in todo : ~IsIgnored(k)

\* C6: a registration conflict is recoverable.  When the gauge of a new
\* name cannot be created or registered, the key is skipped: the task goes
\* on with the remaining keys of the flat map and nothing else changes.
C6_ConflictSkipsKey ==
    [][(/\ pc = "locked"
        /\ ~NonNumeric(obj[key])
        /\ MetricName(key) \notin DOMAIN metrics
        /\ ~(GaugeNewOk(MetricName(key), key) /\ RegisterOk(MetricName(key))))
       => (pc' = "keys" /\ todo' = todo /\ metrics' = metrics
           /\ registry' = registry /\ metrics_count' = metrics_count)]_vars

\* C7: the metrics-total gauge is overwritten, not accumulated.  It changes
\* only in the step that ends a cycle, and that step sets it to the sum of
\* the counts the reconcile calls of that cycle returned.
C7_TotalOverwritten ==
    [][/\ metrics_total' # metrics_total => (pc = "source" /\ pc' = "idle")
       /\ (pc = "source" /\ pc' = "idle") =>
              (Len(results) = Len(files)
               /\ metrics_total' = SumCounts(results))]_vars

\* A second cycle in which every source failed ends with a total of 0
\* although the gauges of the first cycle exist.
C7_Witness ==
    /\ pc = "idle"
    /\ source_reads_total = 2 * Len(files)
    /\ results = <<-1, -1, -1>>
    /\ metrics_total = 0
    /\ DOMAIN metrics # {}

\* C8: gauges are never removed and go stale.  No step removes a name from
\* the gauge map or the registry; a gauge's value changes only in a step
\* that processes a key of the current flat map with that metric name and
\* a numeric value, and then to that value; and a gauge is created only
\* while a source whose fetch succeeded is being processed.
C8_NeverRemovedOnlyStale ==
    [][/\ DOMAIN metrics \subseteq DOMAIN metrics'
       /\ registry \subseteq registry'
       /\ \A name \in DOMAIN metrics :
             metrics'[name] # metrics[name] =>
                 /\ pc \in {"locked", "registered"}
                 /\ name = MetricName(key)
                 /\ key \in DOMAIN obj
                 /\ ~NonNumeric(obj[key])
                 /\ metrics'[name] = NumericValue(obj[key])
       /\ DOMAIN metrics' # DOMAIN metrics =>
             (fetched.ok /\ key \in DOMAIN obj /\ ~NonNumeric(obj[key]))]_vars

\* A second cycle without any update (fetch failure, undecodable content)
\* after which the gauges of the first cycle still stand.
C8_Witness ==
    /\ pc = "idle"
    /\ source_reads_total = 2 * Len(files)
    /\ results = <<0, -1, 0>>
    /\ metric_prefix = ""
    /\ {"a", "aa"} \subseteq DOMAIN metrics
    /\ metrics["a"] = 1 /\ metrics["aa"] = 2

\* C9: ignore-key exclusion.  No gauge is ever named prefix + an ignored
\* key; and when a reconcile call has visited every key, each key that is
\* not in the ignore list (compared unprefixed) and carries a number has
\* its gauge set to that number, and the count is the number of such keys.
C9_IgnoreKeys ==
    /\ \A k \in IgnoreSet : (metric_prefix \o k) \notin DOMAIN metrics
    /\ CallDone =>
          /\ metrics_count = Cardinality(Countable(obj))
          /\ \A k \in Countable(obj) :
                /\ (metric_prefix \o k) \in DOMAIN metrics
                /\ metrics[metric_prefix \o k] = NumericValue(obj[k])

\* Prefix "a", ignore list {"aa"}: the key "aa" is skipped although its
\* metric name is "aaa", the key "a" is kept although its name is "aa".
C9_Witness ==
    /\ CallDone
    /\ metric_prefix = "a"
    /\ IgnoreSet = {"aa"}
    /\ {"a", "aa"} \subseteq DOMAIN obj
    /\ "aa" \in DOMAIN metrics
    /\ "aaa" \notin DOMAIN metrics
    /\ metrics_count = 1

\* C10: a coercion failure is isolated to its key.  The step that processes
\* a key whose value is a boolean, null or a string that is no float leaves
\* the count, the gauge map, the registry and the keys still to visit as
\* they are and stays in the loop; and the call returns the number of its
\* keys that are not ignored and carry a number.
C10_CoercionIsolated ==
    [][/\ (pc = "locked" /\ NonNumeric(obj[key])) =>
              /\ pc' = "keys"
              /\ metrics' = metrics
              /\ registry' = registry
              /\ metrics_count' = metrics_count
              /\ todo' = todo
       /\ (CallDone /\ pc' = "source") =>
              /\ Len(results') = Len(results) + 1
              /\ results'[Len(results')] = Cardinality(Countable(obj))]_vars

\* A call over {a: 2, aa: "x", b__c__0: null, b__c__1: "+1"} has counted
\* a and b__c__1 and left the existing gauge aa at 2.
C10_Witness ==
    /\ CallDone
    /\ metric_prefix = ""
    /\ IgnoreSet = {}
    /\ DOMAIN obj = {"a", "aa", "b__c__0", "b__c__1"}
    /\ obj["aa"] = Str("x")
    /\ metrics_count = 2
    /\ "aa" \in DOMAIN metrics /\ metrics["aa"] = 2
    /\ "b__c__1" \in DOMAIN metrics /\ metrics["b__c__1"] = 1

\* C11: the sources of a cycle are processed one after the other in the
\* configured order, and when the cycle ends every name that sources of the
\* cycle produced is registered once and its gauge holds the value of the
\* source that comes last in the configured list among those that produced it.
C11_LaterSourceWins ==
    [][/\ idx' # idx => (idx' = idx + 1 \/ (pc = "idle" /\ idx' = 1))
       /\ (pc = "source" /\ pc' = "idle") =>
              \A n \in DOMAIN cycleObs :
                  /\ n \in registry'
                  /\ n \in DOMAIN metrics'
                  /\ metrics'[n] = cycleObs[n][2]
                  /\ regCalls'[n] = 1]_vars

\* A cycle has ended in which the first source produced a = 2 (the document
\* that also holds b__c__1) and the third source produced a = 1.
C11_Witness ==
    /\ pc = "idle"
    /\ metric_prefix = ""
    /\ "b__c__1" \in DOMAIN cycleObs
    /\ cycleObs["b__c__1"][1] = 1
    /\ "a" \in DOMAIN cycleObs
    /\ cycleObs["a"] = <<3, 1>>
    /\ results[1] = 2
    /\ metrics["a"] = 1

\* C12: source_reads_total rises by exactly one when a source is taken up,
\* before its fetch, and by nothing else, so after k completed cycles it is
\* k times the number of sources; source_read_failures_total rises only in
\* the step in which a fetch fails; a source whose format is unsupported or
\* whose content does not decode adds zero metrics and leaves the failure
\* counter as it is.
C12_ReadAccounting ==
    [][/\ source_reads_total' # source_reads_total =>
              /\ pc = "source" /\ pc' = "fetch"
              /\ source_reads_total' = source_reads_total + 1
       /\ (pc # "fetch" /\ pc' = "fetch") =>
              source_reads_total' = source_reads_total + 1
       /\ pc' = "idle" => source_reads_total' = cycles' * Len(files)
       /\ source_read_failures_total' # source_read_failures_total =>
              /\ pc = "fetch" /\ fetched'.done /\ ~fetched'.ok
              /\ source_read_failures_total' = source_read_failures_total + 1
       /\ (pc = "content" /\ pc' = "source") =>
              /\ source_read_failures_total' = source_read_failures_total
              /\ metric_count' = metric_count
              /\ metrics' = metrics
              /\ results' = Append(results, 0)]_vars

\* In the second cycle the URL source answered without a Content-Type
\* (format "unknown") after the first source had been read: five reads,
\* and no failure counted in this cycle.
C12_Witness ==
    /\ pc = "source"
    /\ idx = 3
    /\ cycles = 1
    /\ file_type = "unknown"
    /\ results[2] = 0
    /\ source_reads_total = Len(files) + 2
    /\ source_read_failures_total = failsAtTick

\* C13: in every reachable state (the write lock held or free, a fetch in
\* progress, the task stopped by a panic) a scrape can be answered, and no
\* scrape step changes the lock, the gauge map or the position of the
\* collection task.
C13_ScrapeNeverBlocked ==
    /\ ENABLED Scrape
    /\ ~ENABLED (Scrape /\ <<lock, metrics, pc>>' # <<lock, metrics, pc>>)

\* A scrape was answered while the reconciler held the write lock.
C13_Witness ==
    /\ buffer # NoResponse
    /\ lock = "write"
    /\ pc = "registered"

\* The scalar leaves of a tree in depth-first order, each with the path
\* that leads to it: <<"key", k>> for an object member, <<"index", i>> for
\* an array element.
RECURSIVE ConcatAll(_)
ConcatAll(ss) ==
    IF ss = << >> THEN << >> ELSE ss[1] \o ConcatAll(Tail(ss))

RECURSIVE LeafPaths(_, _)
LeafPaths(value, path) ==
    IF value.t = "obj"
        THEN ConcatAll([i \in 1..Len(value.kv) |->
                 LeafPaths(value.kv[i][2],
                           Append(path, <<"key", value.kv[i][1]>>))])
    ELSE IF value.t = "arr"
        THEN ConcatAll([i \in 1..Len(value.a) |->
                 LeafPaths(value.a[i],
                           Append(path, <<"index", UsizeToString(i - 1)>>))])
    ELSE << <<path, value>> >>

\* The flattened key of a path: a member key taken at the empty prefix is
\* the key itself, every other step appends "__" and the key or index.
RECURSIVE PathKey(_, _)
PathKey(prefix, path) ==
    IF path = << >> THEN prefix
    ELSE PathKey(IF path[1][1] = "key" /\ prefix = "" THEN path[1][2]
                 ELSE prefix \o "__" \o path[1][2],
                 Tail(path))

LeafKey(leaf) == PathKey("", leaf[1])

ExampleFlat ==
    ("a__b" :> Num(1)) @@ ("a__c__0" :> Num(2)) @@ ("a__c__1" :> Num(3))

FlattenStep == pc = "content" /\ pc' = "keys" /\ file_type = "json"

\* C14 as stated: flattening a tree yields exactly one entry per scalar leaf,
\* under the leaf's path key and with the leaf's value.
C14_OneEntryPerLeaf ==
    [][FlattenStep =>
          LET L == LeafPaths(contents.json[1], << >>)
          IN  /\ Cardinality(DOMAIN obj') = Len(L)
              /\ \A i \in 1..Len(L) :
                     /\ LeafKey(L[i]) \in DOMAIN obj'
                     /\ obj'[LeafKey(L[i])] = L[i][2]]_vars

\* C14, amended: flattening a tree yields exactly the path keys of its
\* scalar leaves; a key holds the value of the last leaf, in depth-first
\* order, that has this path key, so leaves whose path keys coincide share
\* one entry; the example tree flattens to exactly the example map.
C14_OneEntryPerPathKey ==
    [][FlattenStep =>
          LET L == LeafPaths(contents.json[1], << >>)
          IN  /\ DOMAIN obj' = {LeafKey(L[i]) : i \in 1..Len(L)}
              /\ \A i \in 1..Len(L) :
                     (\A j \in (i + 1)..Len(L) : LeafKey(L[j]) # LeafKey(L[i]))
                        => obj'[LeafKey(L[i])] = L[i][2]
              /\ contents.json[1] = ExampleTree => obj' = ExampleFlat]_vars

\* The example tree has been flattened.
C14_Witness ==
    /\ pc = "keys"
    /\ obj = ExampleFlat
    /\ todo = DOMAIN ExampleFlat

\* The column indexes of the first data row whose cell parses as an f64.
ParsedColumns(rows) ==
    {i \in 1..Len(rows[2]) : ParseF64(rows[2][i]) # << >>}

CsvStep == pc = "content" /\ file_type = "csv"

\* C15: a CSV document with a header row and a first data row (a record of
\* the header's length) is reconciled with exactly one entry per header of a
\* cell of that row that parses, whose value is such a cell's number; the
\* cells that do not parse and the later rows add nothing; and a document
\* without header row or first data row adds zero metrics.
C15_CsvFirstRow ==
    [][CsvStep =>
          LET rows == contents.csv
          IN  IF Len(rows) >= 2 /\ Len(rows[2]) = Len(rows[1])
              THEN /\ pc' = "keys"
                   /\ DOMAIN obj' = {rows[1][i] : i \in ParsedColumns(rows)}
                   /\ \A i \in ParsedColumns(rows) :
                          \E j \in ParsedColumns(rows) :
                             /\ rows[1][j] = rows[1][i]
                             /\ obj'[rows[1][i]] = Num(ParseF64(rows[2][j])[1])
              ELSE /\ pc' = "source"
                   /\ results' = Append(results, 0)
                   /\ metrics' = metrics]_vars

\* C16: after every completed cycle epimetheus_metrics_total is the number
\* of user gauges the exporter tracks, the size of the shared gauge map.
C16_TotalIsTracked ==
    (pc = "idle" /\ cycles > 0) => metrics_total = Cardinality(DOMAIN metrics)

\* C17: every user gauge in the answer of a scrape carries a value that
\* gauge.set has written to it, the coerced value of an observation of its
\* name, and never the initial value of a gauge that has not been set.
C17_ScrapeSeesWrittenValues ==
    buffer # NoResponse =>
        \A n \in DOMAIN buffer[1] \ INTERNAL_NAMES :
            /\ n \in DOMAIN written
            /\ buffer[1][n] \in written[n]

\* C18: while the task waits for a tick, takes up or fetches a source,
\* decodes content, or is between two keys of a flat map, the write lock
\* of the gauge map is free.
C18_LockFreeOutsideKey ==
    pc \in {"idle", "source", "fetch", "content", "keys"} => lock = "free"

\* The second source is being fetched after the first one has created
\* gauges under the lock.
C18_Witness ==
    /\ pc = "fetch"
    /\ idx = 2
    /\ results # << >>
    /\ results[1] > 0
    /\ DOMAIN metrics # {}
    /\ lock = "free"

\* The names of the user gauges the registry holds.
UserRegistered == registry \ INTERNAL_NAMES

\* C19: whenever the write lock is not held, the keys of the shared gauge
\* map are exactly the user gauge names registered in the registry.
C19_MapMatchesRegistry ==
    lock # "write" => DOMAIN metrics = UserRegistered

\* Two gauges exist and the lock is free.
C19_Witness ==
    /\ lock = "free"
    /\ Cardinality(DOMAIN metrics) >= 2
    /\ DOMAIN metrics = UserRegistered

====
